---- MODULE Spec2Model ----
(***************************************************************************)
(* Pharmacy coverage: the area search of PharmacyService                   *)
(* (services/pharmacy_service.py) as driven by PharmacyApp._process_search *)
(* (main.py).                                                              *)
(*                                                                         *)
(* Coordinates and steps are integers in units of 0.005 degree (the dense  *)
(* step of the source), so 200 units make one degree: 33.50 degrees is     *)
(* 6700, -7.60 degrees is -1520, a step of 0.01 is 2.  Radii are metres,   *)
(* the clock is in hours.                                                  *)
(***************************************************************************)
EXTENDS Integers, Sequences, FiniteSets, TLC

VARIABLES
    pc,               \* "idle" | "cell" | "post" | "sleep" | "done"
    runs,             \* number of searches launched in this session
    now,              \* datetime.now(), in hours
    upstream,         \* what the Places API answers, per zone of the map
    cache,            \* pharmacy_cache and cache_expiration of the session user
    args,             \* arguments of the running / last search
    subarea_step,     \* the step after the density adjustment
    subarea_radius,   \* the radius after the density adjustment
    cells,            \* list(product(lat_steps, lon_steps))
    idx,              \* 1-based position in cells of the cell being searched
    all_pharmacies,   \* accumulator of get_pharmacies_in_area
    seen,             \* identity keys already in all_pharmacies
    total_requests,   \* running total of get_pharmacies_in_area
    pharmacies,       \* accumulator of get_pharmacies_in_subarea
    request_count,    \* counter of get_pharmacies_in_subarea
    page,             \* 1-based number of the next page to request
    result,           \* what get_pharmacies_in_area returned
    reports,          \* the st.error messages shown during the search
    log,              \* history: one entry per get_pharmacies_in_subarea call
    httpCalls,        \* history: requests.post calls of the running search
    prev,             \* history: the search completed before this one
    cellCalls,        \* history: requests.post calls of the running point search
    slept,            \* history: time.sleep was the last step of the point search
    session,          \* is_authenticated, is_admin and username of st.session_state
    users,            \* the USERS table, by username
    history,          \* the rows of the SEARCH_HISTORY table
    search_name,      \* st.session_state.search_name
    ret,               \* history: the last call of UserService and what it returned
    other,             \* a second browser session: its user, its launch in progress, its cache
    ledger,            \* history: per user, the credits all committed changes add up to, and the credits paid
    issued,            \* history: requests.post calls of all searches of all sessions
    mig,               \* migrate_json_to_mysql: MIGRATION_STATUS, the files read, the open transaction
    ui,                \* st.session_state: page, search_in_progress, map, selected_pharmacies_key, the message shown
    db                \* the MySQL server: "up", or "failing" when a statement can raise Error

vars == <<pc, runs, now, upstream, cache, args, subarea_step, subarea_radius,
          cells, idx, all_pharmacies, seen, total_requests, pharmacies,
          request_count, page, result, reports, log, httpCalls, prev,
          cellCalls, slept, session, users, history, search_name, ret, other, ledger, issued, mig, ui, db>>

\* the variables of the area search and its history
searchVars == <<pc, runs, args, subarea_step, subarea_radius, cells, idx,
                all_pharmacies, seen, total_requests, pharmacies, request_count,
                page, result, reports, log, httpCalls, prev, cellCalls, slept,
                search_name>>

----------------------------------------------------------------------------
\* Bounds of the model
MaxRuns == 2
MaxHours == 24
MaxPages == 3

\* Constants of the program
DenseStep == 1
DenseRadius == 500
KmPerDegree == 111
LatLimit == 18000
LonLimit == 36000
CacheTTLHours == 24

----------------------------------------------------------------------------
\* Inputs

Box(a, b, c, d) == [lat_min |-> a, lat_max |-> b, lon_min |-> c, lon_max |-> d]

\* 0.01 x 0.005 degree (0.5 km2), 0.01 x 0.01 degree (1.03 km2) and
\* 0.01 x 0.015 degree (1.5 km2) around Casablanca
ValidBoxes == { Box(6700, 6702, -1520, -1519),
                Box(6700, 6702, -1520, -1518),
                Box(6700, 6702, -1520, -1517) }

\* zero latitude extent, reversed longitudes, latitude beyond 90 degrees
InvalidBoxes == { Box(6700, 6700, -1520, -1518),
                  Box(6700, 6702, -1518, -1520),
                  Box(6700, 18002, -1520, -1518) }

Policy(s, r) == [step |-> s, radius |-> r]

ValidPolicies == { Policy(1, 300), Policy(2, 1000), Policy(4, 1000) }

InvalidPolicies == { Policy(0, 1000), Policy(-1, 1000), Policy(2, 0), Policy(2, -50) }

Request(b, p) == [lat_min |-> b.lat_min, lat_max |-> b.lat_max,
                  lon_min |-> b.lon_min, lon_max |-> b.lon_max,
                  step |-> p.step, radius |-> p.radius]

Requests ==
    { Request(b, p) : b \in ValidBoxes, p \in ValidPolicies }
    \cup { Request(b, Policy(2, 1000)) : b \in InvalidBoxes }
    \cup { Request(Box(6700, 6702, -1520, -1518), p) : p \in InvalidPolicies }

NoRequest == [lat_min |-> 0, lat_max |-> 0, lon_min |-> 0, lon_max |-> 0,
              step |-> 0, radius |-> 0]

----------------------------------------------------------------------------
\* The Places API: raw places and the answers to one cell's page requests

RawPlace(n, la, lo, ad, hasLoc) ==
    [name |-> n, latitude |-> la, longitude |-> lo, address |-> ad, location |-> hasLoc]

pA    == RawPlace("Pharmacie A", 6701, -1519, "1 rue A", TRUE)
pA2   == RawPlace("Pharmacie A", 6701, -1519, "1 bis rue A", TRUE)
pB    == RawPlace("Pharmacie B", 6701, -1519, "2 rue B", TRUE)
pC    == RawPlace("Pharmacie C", 6702, -1518, "3 rue C", TRUE)
pFar  == RawPlace("Pharmacie F", 18200, -1519, "pole", TRUE)
pNone == RawPlace("Pharmacie N", 0, 0, "", FALSE)

Page(st, ps, tok) == [status |-> st, places |-> ps, nextPageToken |-> tok]

Scripts == {
    << Page("ok", <<>>, FALSE) >>,
    << Page("ok", <<pA, pFar, pA2>>, TRUE), Page("ok", <<pB, pA>>, FALSE) >>,
    << Page("connection_error", <<>>, FALSE) >>,
    << Page("http_error", <<>>, FALSE) >>,
    << Page("ok", <<pA>>, TRUE), Page("http_error", <<>>, FALSE) >>,
    << Page("ok", <<pB, pNone>>, FALSE) >>,
    << Page("ok", <<pB, pC>>, FALSE) >>,
    << Page("ok", <<>>, TRUE) >> }

\* the answer to the n-th page request of a cell: the last page of a script
\* that carries a token is served again for that token
Answer(script, n) == script[IF n <= Len(script) THEN n ELSE Len(script)]

Zones == {0, 1}

ZoneOf(center) == (center[1] + center[2]) % 2

----------------------------------------------------------------------------
\* Pure functions of the source

CeilDiv(a, b) == -((-a) \div b)

ArangeLenFloor(start, stop, step) ==
    IF step > 0 THEN (stop - start) \div step ELSE 0

\* np.arange(start, stop, step) for start < stop: ceil((stop - start) / step)
\* points start + i * step, none when the step is negative
ArangeLen(start, stop, step) ==
    IF step > 0 THEN CeilDiv(stop - start, step) ELSE 0

ArangeFromNext(start, stop, step) ==
    [i \in 1..ArangeLen(start, stop, step) |-> start + i * step]

Arange(start, stop, step) ==
    [i \in 1..ArangeLen(start, stop, step) |-> start + (i - 1) * step]

\* the product with the longitude as the outer order
ProductLonOuter(lats, lons) ==
    [k \in 1..(Len(lats) * Len(lons)) |->
        << lats[((k - 1) % Len(lats)) + 1], lons[((k - 1) \div Len(lats)) + 1] >>]

\* itertools.product(lat_steps, lon_steps): latitude outer, longitude inner
Product(lats, lons) ==
    [k \in 1..(Len(lats) * Len(lons)) |->
        << lats[((k - 1) \div Len(lons)) + 1], lons[((k - 1) % Len(lons)) + 1] >>]

\* np.cos(np.radians(lat)) in thousandths, lat in whole degrees, by
\* Bhaskara's rational approximation (exact to 2 thousandths)
CosMilli(deg) == (1000 * (32400 - 4 * deg * deg)) \div (32400 + deg * deg)

Abs(x) == IF x < 0 THEN -x ELSE x

\* area_km2 of get_pharmacies_in_area, in thousandths of km2
AreaMilliKm2(a) ==
    LET latKmMilli == (a.lat_max - a.lat_min) * KmPerDegree * 5
        lonKmMilli == (a.lon_max - a.lon_min) * KmPerDegree * 5
        midDeg     == Abs(a.lat_min + a.lat_max) \div 400
    IN (((latKmMilli * lonKmMilli) \div 1000) * CosMilli(midDeg)) \div 1000

Min(x, y) == IF x <= y THEN x ELSE y

CoordsInRange(a) ==
    /\ -LatLimit <= a.lat_min /\ a.lat_min <= LatLimit
    /\ -LatLimit <= a.lat_max /\ a.lat_max <= LatLimit
    /\ -LonLimit <= a.lon_min /\ a.lon_min <= LonLimit
    /\ -LonLimit <= a.lon_max /\ a.lon_max <= LonLimit

BoundsDisorderedStrict(a) == a.lat_min > a.lat_max \/ a.lon_min > a.lon_max

BoundsDisordered(a) == a.lat_min >= a.lat_max \/ a.lon_min >= a.lon_max

IsDense(a) == AreaMilliKm2(a) < 1000

AdjustedStep(a) == IF IsDense(a) THEN Min(a.step, DenseStep) ELSE a.step

AdjustedRadiusAlways(a) == Min(a.radius, DenseRadius)

AdjustedRadius(a) == IF IsDense(a) THEN Min(a.radius, DenseRadius) ELSE a.radius

Grid(a, step) ==
    Product(Arange(a.lat_min, a.lat_max, step), Arange(a.lon_min, a.lon_max, step))

\* the identity key of a pharmacy
Key(p) == << p.name, p.latitude, p.longitude >>

Pharmacy(place) ==
    [name |-> place.name, address |-> place.address,
     latitude |-> place.latitude, longitude |-> place.longitude]

PlaceInRange(place) ==
    /\ -LatLimit <= place.latitude /\ place.latitude <= LatLimit
    /\ -LonLimit <= place.longitude /\ place.longitude <= LonLimit

\* the comparison of a missing latitude (None) with a number raises TypeError
RaisesTypeError(places) == \E i \in 1..Len(places) : ~places[i].location

RECURSIVE ParsePlaces(_)
ParsePlaces(places) ==
    IF places = <<>> THEN <<>>
    ELSE IF PlaceInRange(Head(places))
         THEN <<Pharmacy(Head(places))>> \o ParsePlaces(Tail(places))
         ELSE ParsePlaces(Tail(places))

RECURSIVE AppendUnseen(_, _, _)
AppendUnseen(acc, keys, ps) ==
    IF ps = <<>> THEN [list |-> acc, seen |-> keys]
    ELSE IF Key(Head(ps)) \in keys
         THEN AppendUnseen(acc, keys, Tail(ps))
         ELSE AppendUnseen(Append(acc, Head(ps)), keys \cup {Key(Head(ps))}, Tail(ps))

\* a deduplication that leaves the loop after the first duplicate it drops
RECURSIVE DropOneDuplicate(_, _, _)
DropOneDuplicate(acc, keys, ps) ==
    IF ps = <<>> THEN acc
    ELSE IF Key(Head(ps)) \in keys THEN acc \o Tail(ps)
    ELSE DropOneDuplicate(Append(acc, Head(ps)), keys \cup {Key(Head(ps))}, Tail(ps))

UniqueDropOne(ps) == DropOneDuplicate(<<>>, {}, ps)

\* "Supprimer les doublons" of get_pharmacies_in_subarea
UniquePharmacies(ps) == AppendUnseen(<<>>, {}, ps).list

\* the merge leaving the loop at the first place already seen
RECURSIVE AppendUntilSeen(_, _, _)
AppendUntilSeen(acc, keys, ps) ==
    IF ps = <<>> \/ Key(Head(ps)) \in keys THEN [list |-> acc, seen |-> keys]
    ELSE AppendUntilSeen(Append(acc, Head(ps)), keys \cup {Key(Head(ps))}, Tail(ps))

MergeCellUnchecked(acc, keys, ps) ==
    [list |-> acc \o ps, seen |-> keys \cup { Key(ps[i]) : i \in 1..Len(ps) }]

\* the merge of one cell's pharmacies into all_pharmacies
MergeCell(acc, keys, ps) == AppendUnseen(acc, keys, ps)

CountRequestOnce(n) == 1

\* request_count += 1
CountRequest(n) == n + 1

AfterTokenPageNoDelay == "post"

\* while next_page_token: time.sleep(2) comes before the next requests.post
AfterTokenPage == "sleep"

AccumulateLast(total, n) == n

\* total_requests += requests
Accumulate(total, n) == total + n

KeptSeen(old) == old

\* seen = set() at the start of every area search
FreshSeen(old) == {}

\* cache_key: the center to 6 decimals (finer than one unit) and the radius
CacheKey(center, radius) == << center[1], center[2], radius >>

\* an entry still served at the hour it expires
CacheFreshInclusive(entry, t) == entry.expiration >= t

\* self.cache_expiration[cache_key] > datetime.now()
CacheFresh(entry, t) == entry.expiration > t

\* _add_to_cache; stored is history, the hour of the call
StoreInCache(c, key, data, t) ==
    [k \in DOMAIN c \cup {key} |->
        IF k = key
        THEN [data |-> data, expiration |-> t + CacheTTLHours, stored |-> t]
        ELSE c[k]]

DropFromCache(c, key) == [k \in DOMAIN c \ {key} |-> c[k]]

EmptyCache == [k \in {} |-> 0]

\* what get_pharmacies_in_subarea returns for a cell that is not cached, the
\* API answering with the pages of script: the pages are requested from n on,
\* acc holding the places of the pages before; "endless" when the tokens go
\* on past MaxPages pages, the call not returning
RECURSIVE DrainPages(_, _, _)
DrainPages(script, n, acc) ==
    LET resp == Answer(script, n)
    IN IF n > MaxPages
       THEN [outcome |-> "endless", places |-> <<>>]
       ELSE IF resp.status # "ok"
       THEN [outcome |-> "failed", places |-> <<>>]
       ELSE IF RaisesTypeError(resp.places)
       THEN [outcome |-> "raised", places |-> <<>>]
       ELSE IF resp.nextPageToken
       THEN DrainPages(script, n + 1, acc \o ParsePlaces(resp.places))
       ELSE [outcome |-> "ok",
             places |-> UniquePharmacies(acc \o ParsePlaces(resp.places))]

PointSearch(script) == DrainPages(script, 1, <<>>)

\* the loop of get_pharmacies_in_area over the per-cell results in the order
\* they arrive: each is merged, an exception ends the search with no place
RECURSIVE MergeAll(_, _, _)
MergeAll(acc, keys, arrivals) ==
    IF arrivals = <<>> THEN acc
    ELSE IF Head(arrivals).outcome = "raised" THEN <<>>
    ELSE LET merged == MergeCell(acc, keys, Head(arrivals).places)
         IN MergeAll(merged.list, merged.seen, Tail(arrivals))

----------------------------------------------------------------------------
\* State

NoResult == [pharmacies |-> <<>>, total_requests |-> 0]

NoRun == [launched |-> FALSE, args |-> NoRequest, result |-> NoResult, reports |-> <<>>]

MsgCoords   == "Erreur : coordonnees geographiques invalides."
MsgLimits   == "Erreur : les limites de la zone sont incorrectes."
MsgSubarea  == "Erreur lors de la recuperation des pharmacies"
MsgArea     == "Erreur lors de la recherche"
MsgNotFound == "Aucune pharmacie trouvee. Verifiez votre cle API ou la zone."
MsgLaunch   == "Erreur lors du lancement de la recherche"

\* the accounts an administrator can create, and the administrator
Usernames == {"u1", "u2"}
AdminName == "admin"
NoUser    == "none"
UserIds   == Usernames \cup {AdminName, NoUser}

\* the pages of the application
PageLogin     == "Connexion"
PageSelection == "Selection de la zone"
PageResults   == "Resultats"
PageHistory   == "Historique"
PageBilling   == "Facturation"
PageUsers     == "Gestion des utilisateurs"
NoPage        == "rien"

MsgBadLogin == "Nom d'utilisateur ou mot de passe incorrect."
MsgBadAdmin == "Mot de passe administrateur incorrect."
NoMessage   == ""

\* None, a folium map of the pharmacies, generate_pharmacies_key
NoMap == <<>>
NoKey == <<>>
CreateMap(ps) == <<"map", ps>>
GeneratePharmaciesKey(ps) == <<"md5", ps>>

\* _initialize_session_state
InitialUi ==
    [page |-> PageLogin, search_in_progress |-> FALSE, map |-> NoMap,
     selected_pharmacies_key |-> NoKey, message |-> NoMessage]

\* _reset_search
ResetSearch(u) ==
    [u EXCEPT !.search_in_progress = FALSE, !.page = PageSelection, !.map = NoMap,
              !.selected_pharmacies_key = NoKey]

\* _process_search before the area search, from the button of the selection page
InProgress(u) ==
    [u EXCEPT !.search_in_progress = TRUE, !.page = PageSelection, !.message = NoMessage]

\* _process_search after a result was saved
ShowResults(u, ps) ==
    [u EXCEPT !.search_in_progress = FALSE, !.page = PageResults, !.map = CreateMap(ps),
              !.selected_pharmacies_key = GeneratePharmaciesKey(ps)]

\* run: the entries of the selectbox "Naviguer"
PageOptions(s) ==
    {PageSelection, PageResults, PageHistory}
        \cup (IF s.is_admin THEN {PageBilling, PageUsers} ELSE {})

\* run: the page rendered for the session state
RenderedPage(s, p) ==
    IF ~s.is_authenticated THEN PageLogin
    ELSE IF p \in {PageSelection, PageResults, PageHistory} THEN p
    ELSE IF p \in {PageBilling, PageUsers} /\ s.is_admin THEN p
    ELSE NoPage

\* a login that fails moves the page as a successful one does
FailedLoginMoves(u, m) == [u EXCEPT !.page = PageSelection, !.message = m]

\* _render_login_page when authenticate_user or authenticate_admin returns
\* False: st.error and nothing else
FailedLoginShows(u, m) == [u EXCEPT !.message = m]

\* save_search_history and increment_total_requests re-raise mysql Error
DbOutcomes(d, ps) ==
    IF d = "up" \/ ps = <<>> THEN {"ok"} ELSE {"ok", "save_raises", "increment_raises"}

LoggedOut == [is_authenticated |-> FALSE, is_admin |-> FALSE, username |-> NoUser]

\* bcrypt.hashpw of the password chosen at creation; "" is the password of
\* the row save_search_history inserts
Hashed     == "bcrypt"
NoPassword == ""

UserRow(pw, c, t) == [password |-> pw, credits |-> c, total_requests |-> t]

NoUsers == [u \in {} |-> UserRow(NoPassword, 0, 0)]

\* load_users: username -> password and credits
LoadUsers(table) ==
    [u \in DOMAIN table |-> [password |-> table[u].password, credits |-> table[u].credits]]

\* save_users: INSERT ... ON DUPLICATE KEY UPDATE password, credits for every
\* user of the dict; a row whose user is not in the dict is left as it is
SaveUsers(table, dict) ==
    [u \in DOMAIN table \cup DOMAIN dict |->
        IF u \in DOMAIN dict
        THEN UserRow(dict[u].password, dict[u].credits,
                     IF u \in DOMAIN table THEN table[u].total_requests ELSE 0)
        ELSE table[u]]

Without(dict, u) == [k \in DOMAIN dict \ {u} |-> dict[k]]

With(dict, u, pw, c) ==
    [k \in DOMAIN dict \cup {u} |->
        IF k = u THEN [password |-> pw, credits |-> c] ELSE dict[k]]

\* get_user_credits
GetUserCredits(table, u) == table[u].credits

\* update_credits: load_users, users[username]['credits'] = credits, save_users
UpdateCreditsOf(table, u, c) ==
    SaveUsers(table, With(LoadUsers(table), u, table[u].password, c))

\* save_search_history: the USERS row of the user is inserted when missing,
\* then the SEARCH_HISTORY row
EnsureUser(table, u) ==
    [k \in DOMAIN table \cup {u} |->
        IF k \in DOMAIN table THEN table[k] ELSE UserRow(NoPassword, 0, 0)]

HistoryRow(n, u, total, ps) ==
    [name |-> n, user_id |-> u, total_requests |-> total, pharmacies |-> ps]

\* increment_total_requests
IncrementTotalRequests(table, u, n) ==
    IF u \in DOMAIN table
    THEN [table EXCEPT ![u].total_requests = @ + n]
    ELSE table

\* get_total_requests(): SELECT SUM(total_requests) FROM SEARCH_HISTORY
RECURSIVE GetTotalRequests(_)
GetTotalRequests(h) ==
    IF h = <<>> THEN 0 ELSE Head(h).total_requests + GetTotalRequests(Tail(h))

\* is_search_name_unique: among the user's searches, among all for the admin
IsSearchNameUnique(h, n, u) ==
    \A i \in 1..Len(h) : h[i].name = n => (u # AdminName /\ h[i].user_id # u)

NameOfRun(k) == <<"recherche", k>>
NoName       == <<"none", 0>>

Call(op, u, existed, value) ==
    [op |-> op, username |-> u, existed |-> existed, value |-> value]

NoCall == Call("none", NoUser, FALSE, FALSE)

\* the requests a point search makes against the pages of script, counted
\* from k at page n
RECURSIVE DrainCount(_, _, _)
DrainCount(script, n, k) ==
    LET resp == Answer(script, n)
    IN IF n > MaxPages THEN k
       ELSE IF resp.status = "connection_error" THEN k
       ELSE IF resp.status = "http_error" THEN CountRequest(k)
       ELSE IF RaisesTypeError(resp.places) THEN k
       ELSE IF resp.nextPageToken THEN DrainCount(script, n + 1, CountRequest(k))
       ELSE CountRequest(k)

PointCount(script) == DrainCount(script, 1, 0)

\* the requests.post calls of a point search against the pages of script
RECURSIVE DrainPosts(_, _)
DrainPosts(script, n) ==
    LET resp == Answer(script, n)
    IN IF n > MaxPages THEN 0
       ELSE IF resp.status = "ok" /\ ~RaisesTypeError(resp.places) /\ resp.nextPageToken
       THEN 1 + DrainPosts(script, n + 1)
       ELSE 1

PointPosts(script) == DrainPosts(script, 1)

\* the loop of get_pharmacies_in_area over the cells cs, run in one piece: st
\* holds all_pharmacies, seen, total_requests and the cache of the user, up
\* the answers of the API and t the hour
RECURSIVE SearchCells(_, _, _, _, _)
SearchCells(cs, radius, st, up, t) ==
    IF cs = <<>>
    THEN [pharmacies |-> st.list, total_requests |-> st.total, cache |-> st.cache,
          posts |-> st.posts, returns |-> TRUE]
    ELSE LET center == Head(cs)
             key    == CacheKey(center, radius)
             script == up[ZoneOf(center)]
             res    == PointSearch(script)
             hit    == key \in DOMAIN st.cache /\ CacheFresh(st.cache[key], t)
             kept   == IF key \in DOMAIN st.cache /\ ~hit
                       THEN DropFromCache(st.cache, key) ELSE st.cache
             ps     == IF hit THEN st.cache[key].data ELSE res.places
             n      == IF hit THEN 0 ELSE PointCount(script)
             sent   == IF hit THEN st.posts ELSE st.posts + PointPosts(script)
             merged == MergeCell(st.list, st.seen, ps)
         IN IF ~hit /\ res.outcome = "endless"
            THEN [pharmacies |-> <<>>, total_requests |-> st.total, cache |-> kept,
                  posts |-> sent, returns |-> FALSE]
            ELSE IF ~hit /\ res.outcome = "raised"
            THEN [pharmacies |-> <<>>, total_requests |-> st.total, cache |-> kept,
                  posts |-> sent, returns |-> TRUE]
            ELSE SearchCells(Tail(cs), radius,
                             [list  |-> merged.list,
                              seen  |-> merged.seen,
                              total |-> Accumulate(st.total, n),
                              posts |-> sent,
                              cache |-> IF ~hit /\ res.outcome = "ok"
                                        THEN StoreInCache(kept, key, ps, t) ELSE kept],
                             up, t)

\* get_pharmacies_in_area(r) run in one piece with the cache c
AreaSearch(r, c, up, t) ==
    IF ~CoordsInRange(r) \/ BoundsDisordered(r) \/ AdjustedStep(r) = 0
    THEN [pharmacies |-> <<>>, total_requests |-> 0, cache |-> c, posts |-> 0,
          returns |-> TRUE]
    ELSE SearchCells(Grid(r, AdjustedStep(r)), AdjustedRadius(r),
                     [list |-> <<>>, seen |-> {}, total |-> 0, posts |-> 0, cache |-> c],
                     up, t)

\* the second session before anyone logged in there
OtherOut ==
    [pc |-> "out", username |-> NoUser, request |-> NoRequest, name |-> NoName,
     credits |-> 0, snapshot |-> LoadUsers(NoUsers), cache |-> EmptyCache, runs |-> 0]

\* calls of migrate_json_to_mysql
MaxMigrations == 3

\* users.json, request_count.json and search_history.json as downloaded from
\* S3: the accounts with their credits, the counters (none when the file is
\* missing), the saved searches
JsonFiles ==
    [users    : { << [username |-> "u1", credits |-> 1] >>,
                  << [username |-> "u1", credits |-> 1],
                     [username |-> "u2", credits |-> 0] >> },
     counts   : { <<>>,
                  << [username |-> "u1", total_requests |-> 2] >>,
                  << [username |-> AdminName, total_requests |-> 3],
                     [username |-> "u1", total_requests |-> 2],
                     [username |-> "u2", total_requests |-> 1] >> },
     searches : { <<>>,
                  << HistoryRow(NameOfRun(1), "u1", 2, <<pA>>) >>,
                  << HistoryRow(NameOfRun(1), "u1", 2, <<pA>>),
                     HistoryRow(NameOfRun(2), "u1", 1, <<pA, pB>>) >> }]

\* USERS and SEARCH_HISTORY as one connection sees them
Tables(us, h) == [users |-> us, history |-> h]

\* init_db: MIGRATION_STATUS holds (1, 'pending'); no call was made yet
NoMigration ==
    [status |-> "pending", pc |-> "idle",
     files |-> [users |-> <<>>, counts |-> <<>>, searches |-> <<>>], i |-> 0,
     tx |-> Tables(NoUsers, <<>>), outcomes |-> <<>>]

\* INSERT IGNORE INTO USERS (..., total_requests) VALUES (..., 0)
InsertIgnoreUser(table, e) ==
    [k \in DOMAIN table \cup {e.username} |->
        IF k \in DOMAIN table THEN table[k] ELSE UserRow(Hashed, e.credits, 0)]

\* the entry of request_count.json: admin is skipped, a user missing from
\* USERS is skipped, otherwise UPDATE USERS SET total_requests
SetTotalRequests(table, e) ==
    IF e.username # AdminName /\ e.username \in DOMAIN table
    THEN [table EXCEPT ![e.username].total_requests = e.total_requests]
    ELSE table

\* INSERT IGNORE INTO SEARCH_HISTORY: a row whose user_id is not in USERS
\* fails the foreign key and is dropped
InsertIgnoreSearch(t, row) ==
    IF row.user_id \in DOMAIN t.users THEN Append(t.history, row) ELSE t.history

\* a connection with autocommit on: every statement is committed at once
RollbackAutocommit(committed, tx) == tx

\* the connection is closed without a commit (autocommit is off): the tables
\* stay as committed, the writes of the transaction tx are dropped
Rollback(committed, tx) == committed

NoLedger == [u \in Usernames |-> [expected |-> 0, taken |-> 0]]

\* the administrator set the credits of u to c
Granted(l, u, c) == [l EXCEPT ![u].expected = c]

\* u paid one credit
Paid(l, u) == [l EXCEPT ![u].expected = @ - 1, ![u].taken = @ + 1]

Init ==
    /\ pc = "idle"
    /\ runs = 0
    /\ now = 0
    /\ upstream \in [Zones -> Scripts]
    /\ cache = [u \in UserIds |-> EmptyCache]
    /\ args = NoRequest
    /\ subarea_step = 0
    /\ subarea_radius = 0
    /\ cells = <<>>
    /\ idx = 0
    /\ all_pharmacies = <<>>
    /\ seen = {}
    /\ total_requests = 0
    /\ pharmacies = <<>>
    /\ request_count = 0
    /\ page = 0
    /\ result = NoResult
    /\ reports = <<>>
    /\ log = <<>>
    /\ httpCalls = 0
    /\ prev = NoRun
    /\ cellCalls = 0
    /\ slept = FALSE
    /\ session = LoggedOut
    /\ users = NoUsers
    /\ history = <<>>
    /\ search_name = NoName
    /\ ret = NoCall
    /\ other = OtherOut
    /\ ledger = NoLedger
    /\ issued = 0
    /\ mig = NoMigration
    /\ ui = InitialUi
    /\ db = "up"

\* get_pharmacies_in_area returns (ps, total) after showing the messages rep,
\* and _process_search reports an empty list
AreaReturn(ps, total, rep) ==
    /\ pc' = "done"
    /\ result' = [pharmacies |-> ps, total_requests |-> total]
    /\ reports' = IF ps = <<>> THEN Append(rep, MsgNotFound) ELSE rep
    /\ idx' = 0
    /\ all_pharmacies' = <<>>
    /\ total_requests' = 0
    /\ pharmacies' = <<>>
    /\ request_count' = 0
    /\ page' = 0

KeysOf(ps) == { Key(ps[i]) : i \in 1..Len(ps) }

LogEntry(center, radius, n, outcome, ps) ==
    [center |-> center, radius |-> radius, requests |-> n, outcome |-> outcome,
     keys |-> KeysOf(ps), places |-> ps, calls |-> cellCalls']

\* _process_search after get_pharmacies_in_area returned (ps, total): a
\* non-empty result is saved and its requests are added to the user's counter
\* with outcome o of the two calls: when save_search_history raises nothing
\* is written, when increment_total_requests raises the search is already
\* committed; both exceptions end in the except branch and _reset_search
SaveSearch(ps, total, o) ==
    IF ps = <<>> \/ o = "save_raises"
    THEN /\ UNCHANGED <<users, history>>
         /\ ui' = ResetSearch(ui)
    ELSE /\ history' = Append(history, HistoryRow(search_name, session.username, total, ps))
         /\ IF o = "increment_raises"
            THEN /\ users' = EnsureUser(users, session.username)
                 /\ ui' = ResetSearch(ui)
            ELSE /\ users' = IncrementTotalRequests(EnsureUser(users, session.username),
                                                    session.username, total)
                 /\ ui' = ShowResults(ui, ps)

\* get_pharmacies_in_subarea returns (ps, n) to the loop of
\* get_pharmacies_in_area, which merges it and goes to the next cell
CellReturns(ps, n, outcome, rep) ==
    LET merged == MergeCell(all_pharmacies, seen, ps)
        total  == Accumulate(total_requests, n)
    IN /\ log' = Append(log, LogEntry(cells[idx], subarea_radius, n, outcome, ps))
       /\ IF idx = Len(cells)
          THEN \E o \in DbOutcomes(db, merged.list) :
               /\ AreaReturn(merged.list, total,
                             IF o = "ok" THEN rep ELSE Append(rep, MsgLaunch))
               /\ seen' = merged.seen
               /\ SaveSearch(merged.list, total, o)
          ELSE /\ pc' = "cell"
               /\ UNCHANGED <<users, history, ui>>
               /\ idx' = idx + 1
               /\ all_pharmacies' = merged.list
               /\ seen' = merged.seen
               /\ total_requests' = total
               /\ pharmacies' = <<>>
               /\ request_count' = 0
               /\ page' = 0
               /\ reports' = rep
               /\ UNCHANGED result

\* _process_search calls get_pharmacies_in_area, which validates the box,
\* adjusts the policy and builds the grid
StartSearch(r) ==
    /\ pc \in {"idle", "done"}
    /\ runs < MaxRuns
    /\ runs' = runs + 1
    /\ prev' = IF pc = "done"
               THEN [launched |-> TRUE, args |-> args, result |-> result, reports |-> reports]
               ELSE prev
    /\ args' = r
    /\ log' = <<>>
    /\ httpCalls' = 0
    /\ cellCalls' = 0
    /\ slept' = FALSE
    /\ UNCHANGED <<now, upstream, cache>>
    /\ IF ~CoordsInRange(r)
       THEN /\ AreaReturn(<<>>, 0, <<MsgCoords>>)
            /\ ui' = ResetSearch(ui)
            /\ UNCHANGED seen
            /\ subarea_step' = r.step
            /\ subarea_radius' = r.radius
            /\ cells' = <<>>
       ELSE IF BoundsDisordered(r)
       THEN /\ AreaReturn(<<>>, 0, <<MsgLimits>>)
            /\ ui' = ResetSearch(ui)
            /\ UNCHANGED seen
            /\ subarea_step' = r.step
            /\ subarea_radius' = r.radius
            /\ cells' = <<>>
       ELSE /\ subarea_step' = AdjustedStep(r)
            /\ subarea_radius' = AdjustedRadius(r)
            /\ seen' = FreshSeen(seen)
            /\ IF AdjustedStep(r) = 0
               THEN \* np.arange raises, caught by the except of the area search
                    /\ cells' = <<>>
                    /\ AreaReturn(<<>>, 0, <<MsgArea>>)
                    /\ ui' = ResetSearch(ui)
               ELSE /\ cells' = Grid(r, AdjustedStep(r))
                    /\ IF Grid(r, AdjustedStep(r)) = <<>>
                       THEN /\ AreaReturn(<<>>, 0, <<>>)
                            /\ ui' = ResetSearch(ui)
                       ELSE /\ pc' = "cell"
                            /\ ui' = InProgress(ui)
                            /\ idx' = 1
                            /\ all_pharmacies' = <<>>
                            /\ total_requests' = 0
                            /\ pharmacies' = <<>>
                            /\ request_count' = 0
                            /\ page' = 0
                            /\ reports' = <<>>
                            /\ UNCHANGED result

\* get_pharmacies_in_subarea is entered for the next cell: cache lookup
CellLookup ==
    /\ UNCHANGED db
    /\ UNCHANGED mig
    /\ UNCHANGED issued
    /\ UNCHANGED ledger
    /\ UNCHANGED other
    /\ pc = "cell"
    /\ cellCalls' = 0
    /\ slept' = FALSE
    /\ LET key  == CacheKey(cells[idx], subarea_radius)
           mine == cache[session.username]
       IN IF key \in DOMAIN mine /\ CacheFresh(mine[key], now)
          THEN /\ CellReturns(mine[key].data, 0, "cache", reports)
               /\ UNCHANGED <<cache, httpCalls>>
          ELSE /\ cache' = IF key \in DOMAIN mine
                           THEN [cache EXCEPT ![session.username] = DropFromCache(mine, key)]
                           ELSE cache
               /\ pc' = "post"
               /\ page' = 1
               /\ pharmacies' = <<>>
               /\ request_count' = 0
               /\ UNCHANGED <<idx, all_pharmacies, seen, total_requests, result,
                              reports, log, httpCalls, users, history, ui>>
    /\ UNCHANGED <<runs, now, upstream, args, subarea_step, subarea_radius, cells, prev,
                   session, search_name, ret>>

\* the model counts the pages of a point search up to MaxPages: the requests
\* after that are made without being counted
PastBound == page > MaxPages

\* one requests.post of get_pharmacies_in_subarea and what follows it up to
\* the next request
Post ==
    /\ UNCHANGED db
    /\ UNCHANGED mig
    /\ UNCHANGED ledger
    /\ UNCHANGED other
    /\ pc = "post"
    /\ httpCalls' = IF PastBound THEN httpCalls ELSE httpCalls + 1
    /\ issued' = IF PastBound THEN issued ELSE issued + 1
    /\ cellCalls' = IF PastBound THEN cellCalls ELSE cellCalls + 1
    /\ slept' = FALSE
    /\ LET center == cells[idx]
           resp   == Answer(upstream[ZoneOf(center)], page)
           found  == pharmacies \o ParsePlaces(resp.places)
           unique == UniquePharmacies(found)
       IN CASE resp.status = "connection_error" ->
                 /\ CellReturns(<<>>, request_count, "failed", Append(reports, MsgSubarea))
                 /\ UNCHANGED cache
            [] resp.status = "http_error" ->
                 /\ CellReturns(<<>>, CountRequest(request_count), "failed",
                                Append(reports, MsgSubarea))
                 /\ UNCHANGED cache
            [] resp.status = "ok" /\ RaisesTypeError(resp.places) ->
                 /\ log' = Append(log, LogEntry(center, subarea_radius, 0, "raised", <<>>))
                 /\ AreaReturn(<<>>, total_requests, Append(reports, MsgArea))
                 /\ ui' = ResetSearch(ui)
                 /\ UNCHANGED <<cache, seen, users, history>>
            [] resp.status = "ok" /\ ~RaisesTypeError(resp.places) /\ resp.nextPageToken ->
                 /\ pc' = AfterTokenPage
                 /\ pharmacies' = found
                 /\ request_count' = IF PastBound THEN request_count
                                     ELSE CountRequest(request_count)
                 /\ page' = IF PastBound THEN page ELSE page + 1
                 /\ UNCHANGED <<cache, idx, all_pharmacies, seen, total_requests,
                                result, reports, log, users, history, ui>>
            [] resp.status = "ok" /\ ~RaisesTypeError(resp.places) /\ ~resp.nextPageToken ->
                 /\ cache' = [cache EXCEPT ![session.username] =
                                StoreInCache(@, CacheKey(center, subarea_radius), unique, now)]
                 /\ CellReturns(unique, CountRequest(request_count), "ok", reports)
    /\ UNCHANGED <<runs, now, upstream, args, subarea_step, subarea_radius, cells, prev,
                   session, search_name, ret>>

\* time.sleep(2) before a continuation page
Sleep ==
    /\ UNCHANGED db
    /\ UNCHANGED ui
    /\ UNCHANGED mig
    /\ UNCHANGED issued
    /\ UNCHANGED ledger
    /\ UNCHANGED other
    /\ pc = "sleep"
    /\ pc' = "post"
    /\ slept' = TRUE
    /\ UNCHANGED <<runs, now, upstream, cache, args, subarea_step, subarea_radius,
                   cells, idx, all_pharmacies, seen, total_requests, pharmacies,
                   request_count, page, result, reports, log, httpCalls, prev,
                   cellCalls, session, users, history, search_name, ret>>

\* hours pass between two searches
Tick ==
    /\ UNCHANGED db
    /\ UNCHANGED ui
    /\ UNCHANGED mig
    /\ UNCHANGED issued
    /\ UNCHANGED ledger
    /\ UNCHANGED other
    /\ pc \in {"idle", "done"}
    /\ \E h \in {12, 24} :
        /\ now + h <= MaxHours
        /\ now' = now + h
    /\ UNCHANGED <<pc, runs, upstream, cache, args, subarea_step, subarea_radius,
                   cells, idx, all_pharmacies, seen, total_requests, pharmacies,
                   request_count, page, result, reports, log, httpCalls, prev,
                   cellCalls, slept, session, users, history, search_name, ret>>

\* _process_search(..., search_name, user_id): the name is kept in the session
\* and get_pharmacies_in_area is called
ProcessSearch(r, n) ==
    /\ session.is_authenticated
    /\ search_name' = n
    /\ StartSearch(r)
    /\ UNCHANGED <<session, history, ret>>

\* the administrator logs in
LoginAdmin ==
    /\ UNCHANGED db
    /\ UNCHANGED mig
    /\ UNCHANGED issued
    /\ UNCHANGED ledger
    /\ UNCHANGED other
    /\ ~session.is_authenticated
    /\ session' = [is_authenticated |-> TRUE, is_admin |-> TRUE, username |-> AdminName]
    /\ ui' = [ui EXCEPT !.page = PageSelection, !.message = NoMessage]
    /\ UNCHANGED <<searchVars, now, upstream, cache, users, history, ret>>

\* a search of the administrator, under a name not used before
AdminSearch(r) ==
    /\ UNCHANGED db
    /\ UNCHANGED mig
    /\ UNCHANGED issued
    /\ UNCHANGED ledger
    /\ UNCHANGED other
    /\ session.is_admin
    /\ IsSearchNameUnique(history, NameOfRun(runs + 1), session.username)
    /\ ProcessSearch(r, NameOfRun(runs + 1))
    /\ UNCHANGED users

\* a user logs in with the password of the account: authenticate_user needs
\* a row with a bcrypt hash, get_user_credits a row
Login(u) ==
    /\ UNCHANGED db
    /\ UNCHANGED mig
    /\ UNCHANGED issued
    /\ UNCHANGED ledger
    /\ UNCHANGED other
    /\ ~session.is_authenticated
    /\ u \in DOMAIN users
    /\ users[u].password = Hashed
    /\ session' = [is_authenticated |-> TRUE, is_admin |-> FALSE, username |-> u]
    /\ ui' = [ui EXCEPT !.page = PageSelection, !.message = NoMessage]
    /\ UNCHANGED <<searchVars, now, upstream, cache, users, history, ret>>

\* the button "Deconnexion": the session is reset, the caches of app_state stay
Logout ==
    /\ UNCHANGED db
    /\ UNCHANGED mig
    /\ UNCHANGED issued
    /\ UNCHANGED ledger
    /\ UNCHANGED other
    /\ session.is_authenticated
    /\ pc \in {"idle", "done"}
    /\ session' = LoggedOut
    /\ ui' = InitialUi
    /\ search_name' = NoName
    /\ UNCHANGED <<pc, runs, args, subarea_step, subarea_radius, cells, idx,
                   all_pharmacies, seen, total_requests, pharmacies, request_count,
                   page, result, reports, log, httpCalls, prev, cellCalls, slept,
                   now, upstream, cache, users, history, ret>>

\* the user management page is shown to the administrator between two searches
AdminPage ==
    /\ session.is_authenticated
    /\ session.is_admin
    /\ pc \in {"idle", "done"}

\* create_user(u, password, c)
CreateUser(u, c) ==
    /\ UNCHANGED db
    /\ UNCHANGED ui
    /\ UNCHANGED mig
    /\ UNCHANGED issued
    /\ UNCHANGED other
    /\ AdminPage
    /\ IF u \in DOMAIN users \/ u = AdminName
       THEN /\ ret' = Call("create_user", u, TRUE, FALSE)
            /\ UNCHANGED <<users, ledger>>
       ELSE /\ ret' = Call("create_user", u, FALSE, TRUE)
            /\ users' = SaveUsers(users, With(LoadUsers(users), u, Hashed, c))
            /\ ledger' = Granted(ledger, u, c)
    /\ UNCHANGED <<searchVars, now, upstream, cache, session, history>>

\* update_credits(u, c) from the list of users, which leaves out "admin"
UpdateCredits(u, c) ==
    /\ UNCHANGED db
    /\ UNCHANGED ui
    /\ UNCHANGED mig
    /\ UNCHANGED issued
    /\ UNCHANGED other
    /\ AdminPage
    /\ u \in DOMAIN users
    /\ u # AdminName
    /\ ret' = Call("update_credits", u, TRUE, TRUE)
    /\ users' = UpdateCreditsOf(users, u, c)
    /\ ledger' = Granted(ledger, u, c)
    /\ UNCHANGED <<searchVars, now, upstream, cache, session, history>>

\* delete_user(u).  For a user of the table: the dict without u is passed to
\* save_users, which deletes no row; then save_search_history(history,
\* overwrite=True) raises TypeError, save_search_history having no such
\* parameter, and the except branch returns False.
DeleteUser(u) ==
    /\ UNCHANGED db
    /\ UNCHANGED ui
    /\ UNCHANGED mig
    /\ UNCHANGED issued
    /\ UNCHANGED ledger
    /\ UNCHANGED other
    /\ AdminPage
    /\ IF u \notin DOMAIN users
       THEN /\ ret' = Call("delete_user", u, FALSE, FALSE)
            /\ UNCHANGED users
       ELSE /\ ret' = Call("delete_user", u, TRUE, FALSE)
            /\ users' = SaveUsers(users, Without(LoadUsers(users), u))
    /\ UNCHANGED <<searchVars, now, upstream, cache, session, history>>

\* not is_admin and get_user_credits(username) < 1 refuses the search
HasCredit ==
    IF session.is_admin THEN TRUE ELSE GetUserCredits(users, session.username) >= 1

\* the button "Lancer la recherche" of main.py, shown for an ordered box: a
\* user who is not the administrator needs one credit and pays it before
\* _process_search is called
LaunchSearch(r, n) ==
    /\ UNCHANGED db
    /\ UNCHANGED mig
    /\ UNCHANGED issued
    /\ UNCHANGED other
    /\ session.is_authenticated
    /\ r.lat_min < r.lat_max /\ r.lon_min < r.lon_max
    /\ IsSearchNameUnique(history, n, session.username)
    /\ HasCredit
    /\ users' = IF session.is_admin
                THEN users
                ELSE UpdateCreditsOf(users, session.username,
                                     GetUserCredits(users, session.username) - 1)
    /\ ledger' = IF session.is_admin THEN ledger ELSE Paid(ledger, session.username)
    /\ ProcessSearch(r, n)

\* the button "Lancer la recherche" of pages.py, enabled under the same
\* conditions: its _process_search passes app.storage_service as one argument
\* more than get_pharmacies_in_area takes, the TypeError is caught by the
\* except of _process_search and the lines that pay the credit are not reached
LaunchSearchPages(r, n) ==
    /\ UNCHANGED db
    /\ UNCHANGED mig
    /\ UNCHANGED issued
    /\ UNCHANGED ledger
    /\ UNCHANGED other
    /\ session.is_authenticated
    /\ pc \in {"idle", "done"}
    /\ runs < MaxRuns
    /\ r.lat_min < r.lat_max /\ r.lon_min < r.lon_max
    /\ IsSearchNameUnique(history, n, session.username)
    /\ HasCredit
    /\ runs' = runs + 1
    /\ prev' = IF pc = "done"
               THEN [launched |-> TRUE, args |-> args, result |-> result, reports |-> reports]
               ELSE prev
    /\ args' = r
    /\ search_name' = n
    /\ pc' = "done"
    /\ result' = NoResult
    /\ reports' = <<MsgLaunch>>
    /\ ui' = ResetSearch(ui)
    /\ log' = <<>>
    /\ httpCalls' = 0
    /\ cellCalls' = 0
    /\ slept' = FALSE
    /\ UNCHANGED <<subarea_step, subarea_radius, cells, idx, all_pharmacies, seen,
                   total_requests, pharmacies, request_count, page,
                   now, upstream, cache, session, users, history, ret>>

\* The second browser session runs the handlers of main.py for a user who is
\* not the administrator, one access to the database at a time.
mainVars == <<searchVars, now, upstream, cache, session, ret, ui, db>>

\* a user logs in there
OtherLogin(u) ==
    /\ UNCHANGED mig
    /\ UNCHANGED issued
    /\ other.pc = "out"
    /\ u \in DOMAIN users
    /\ users[u].password = Hashed
    /\ other' = [other EXCEPT !.pc = "in", !.username = u]
    /\ UNCHANGED <<mainVars, users, history, ledger>>

\* "Lancer la recherche" there: the name is unique and the user has a credit
OtherCheck(r, n) ==
    /\ UNCHANGED mig
    /\ UNCHANGED issued
    /\ other.pc = "in"
    /\ other.runs < MaxRuns
    /\ r.lat_min < r.lat_max /\ r.lon_min < r.lon_max
    /\ IsSearchNameUnique(history, n, other.username)
    /\ GetUserCredits(users, other.username) >= 1
    /\ other' = [other EXCEPT !.pc = "checked", !.request = r, !.name = n]
    /\ UNCHANGED <<mainVars, users, history, ledger>>

\* credits = get_user_credits(username)
OtherRead ==
    /\ UNCHANGED mig
    /\ UNCHANGED issued
    /\ other.pc = "checked"
    /\ other' = [other EXCEPT !.pc = "read",
                               !.credits = GetUserCredits(users, other.username)]
    /\ UNCHANGED <<mainVars, users, history, ledger>>

\* update_credits(username, credits - 1): users = load_users()
OtherLoad ==
    /\ UNCHANGED mig
    /\ UNCHANGED issued
    /\ other.pc = "read"
    /\ other.username \in DOMAIN users
    /\ other' = [other EXCEPT !.pc = "loaded", !.snapshot = LoadUsers(users)]
    /\ UNCHANGED <<mainVars, users, history, ledger>>

\* update_credits: users[username]['credits'] = credits; save_users(users)
OtherSave ==
    /\ UNCHANGED mig
    /\ UNCHANGED issued
    /\ other.pc = "loaded"
    /\ users' = SaveUsers(users, With(other.snapshot, other.username,
                                      other.snapshot[other.username].password,
                                      other.credits - 1))
    /\ ledger' = Paid(ledger, other.username)
    /\ other' = [other EXCEPT !.pc = "search"]
    /\ UNCHANGED <<mainVars, history>>

\* _process_search there, in one piece: a non-empty result is saved and its
\* requests are added to the counter of the user
OtherSearch ==
    /\ UNCHANGED mig
    /\ other.pc = "search"
    /\ LET found == AreaSearch(other.request, other.cache, upstream, now)
       IN /\ found.returns
          /\ issued' = issued + found.posts
          /\ other' = [other EXCEPT !.pc = "in", !.cache = found.cache,
                                     !.runs = @ + 1]
          /\ IF found.pharmacies = <<>>
             THEN UNCHANGED <<users, history>>
             ELSE /\ history' = Append(history,
                                       HistoryRow(other.name, other.username,
                                                  found.total_requests, found.pharmacies))
                  /\ users' = IncrementTotalRequests(EnsureUser(users, other.username),
                                                     other.username, found.total_requests)
    /\ UNCHANGED <<mainVars, ledger>>

\* migrate_json_to_mysql is called: nothing to do when the status is
\* 'completed', otherwise the files are downloaded and a transaction starts
MigrateCall ==
    /\ mig.pc = "idle"
    /\ Len(mig.outcomes) < MaxMigrations
    /\ IF mig.status = "completed"
       THEN mig' = [mig EXCEPT !.outcomes = Append(@, "skipped")]
       ELSE \E f \in JsonFiles :
               mig' = [mig EXCEPT !.pc = "users", !.files = f, !.i = 1,
                                  !.tx = Tables(users, history)]
    /\ UNCHANGED <<mainVars, users, history, other, ledger, issued>>

\* the loop over users.json
MigrateUser ==
    /\ mig.pc = "users"
    /\ IF mig.i <= Len(mig.files.users)
       THEN mig' = [mig EXCEPT !.tx.users = InsertIgnoreUser(@, mig.files.users[mig.i]),
                               !.i = @ + 1]
       ELSE mig' = [mig EXCEPT !.pc = "counts", !.i = 1]
    /\ UNCHANGED <<mainVars, users, history, other, ledger, issued>>

\* the loop over request_count.json
MigrateCount ==
    /\ mig.pc = "counts"
    /\ IF mig.i <= Len(mig.files.counts)
       THEN mig' = [mig EXCEPT !.tx.users = SetTotalRequests(@, mig.files.counts[mig.i]),
                               !.i = @ + 1]
       ELSE mig' = [mig EXCEPT !.pc = "searches", !.i = 1]
    /\ UNCHANGED <<mainVars, users, history, other, ledger, issued>>

\* an exception inside the request_count.json block is logged and the
\* migration goes on with the searches
MigrateCountError ==
    /\ mig.pc = "counts"
    /\ mig' = [mig EXCEPT !.pc = "searches", !.i = 1]
    /\ UNCHANGED <<mainVars, users, history, other, ledger, issued>>

\* the loop over search_history.json
MigrateSearch ==
    /\ mig.pc = "searches"
    /\ IF mig.i <= Len(mig.files.searches)
       THEN mig' = [mig EXCEPT !.tx.history = InsertIgnoreSearch(mig.tx, mig.files.searches[mig.i]),
                               !.i = @ + 1]
       ELSE mig' = [mig EXCEPT !.pc = "commit"]
    /\ UNCHANGED <<mainVars, users, history, other, ledger, issued>>

\* UPDATE MIGRATION_STATUS SET status = 'completed'; conn.commit()
MigrateCommit ==
    /\ mig.pc = "commit"
    /\ users' = mig.tx.users
    /\ history' = mig.tx.history
    /\ mig' = [mig EXCEPT !.pc = "idle", !.status = "completed",
                          !.outcomes = Append(@, "completed")]
    /\ UNCHANGED <<mainVars, other, ledger, issued>>

\* a download, a statement or the commit raises: the exception leaves the
\* function and the finally block closes the connection
MigrateRaise ==
    /\ mig.pc \in {"users", "searches", "commit"}
    /\ users' = Rollback(Tables(users, history), mig.tx).users
    /\ history' = Rollback(Tables(users, history), mig.tx).history
    /\ mig' = [mig EXCEPT !.pc = "idle", !.outcomes = Append(@, "raised")]
    /\ UNCHANGED <<mainVars, other, ledger, issued>>

\* the button "Se connecter" with a name or a password that does not
\* authenticate
FailedLogin(u) ==
    /\ ~session.is_authenticated
    /\ ui' = FailedLoginShows(ui, IF u = AdminName THEN MsgBadAdmin ELSE MsgBadLogin)
    /\ UNCHANGED <<searchVars, now, upstream, cache, session, ret, db, users, history,
                   other, ledger, issued, mig>>

\* the selectbox "Naviguer" of the sidebar, between two searches
Navigate(p) ==
    /\ session.is_authenticated
    /\ pc \in {"idle", "done"}
    /\ p \in PageOptions(session)
    /\ ui' = [ui EXCEPT !.page = p, !.message = NoMessage]
    /\ UNCHANGED <<searchVars, now, upstream, cache, session, ret, db, users, history,
                   other, ledger, issued, mig>>

\* from now on a statement sent to MySQL can raise Error
DbFails ==
    /\ db = "up"
    /\ db' = "failing"
    /\ UNCHANGED <<searchVars, now, upstream, cache, session, ret, ui, users, history,
                   other, ledger, issued, mig>>

Next ==
    \/ LoginAdmin
    \/ \E r \in Requests : AdminSearch(r)
    \/ CellLookup
    \/ Post
    \/ Sleep
    \/ Tick

Spec == Init /\ [][Next]_vars

\* The accounts: logins, the user management page and the searches launched
\* from the two front ends, on one box of the map
MaxCredits == 2

AccountBox == Box(6700, 6702, -1520, -1518)

\* main.py: "Recherche rapide" (step 5, radius 1000) and "Recherche avancee"
\* (step 10, radius 500)
MainRequests == { Request(AccountBox, Policy(1000, 1000)),
                  Request(AccountBox, Policy(2000, 500)) }

\* pages.py: step 0.01, radius 1000
PagesRequests == { Request(AccountBox, Policy(2, 1000)) }

AccountNames == { NameOfRun(1), NameOfRun(2) }

AccountScripts == {
    << Page("ok", <<>>, FALSE) >>,
    << Page("ok", <<pA, pFar, pA2>>, TRUE), Page("ok", <<pB, pA>>, FALSE) >>,
    << Page("http_error", <<>>, FALSE) >> }

AccountInit ==
    /\ Init
    /\ upstream[0] \in AccountScripts
    /\ upstream[1] = upstream[0]

AccountNext ==
    \/ LoginAdmin
    \/ \E u \in Usernames : Login(u)
    \/ Logout
    \/ \E u \in Usernames, c \in 0..MaxCredits : CreateUser(u, c)
    \/ \E u \in Usernames, c \in 0..MaxCredits : UpdateCredits(u, c)
    \/ \E u \in Usernames : DeleteUser(u)
    \/ \E r \in MainRequests, n \in AccountNames : LaunchSearch(r, n)
    \/ \E r \in PagesRequests, n \in AccountNames : LaunchSearchPages(r, n)
    \/ CellLookup
    \/ Post
    \/ Sleep

AccountSpec == AccountInit /\ [][AccountNext]_vars

\* One browser session with its pages: the administrator creates the account
\* of SessionUser, logins succeed or fail, the pages are chosen in the
\* sidebar, searches are launched from main.py and from pages.py, and the
\* database can start to fail
SessionUser == "u1"

SessionInit ==
    /\ Init
    /\ upstream[0] \in AccountScripts
    /\ upstream[1] = upstream[0]

SessionNext ==
    \/ LoginAdmin
    \/ Login(SessionUser)
    \/ \E u \in {SessionUser, AdminName} : FailedLogin(u)
    \/ Logout
    \/ \E p \in {PageSelection, PageResults, PageHistory, PageBilling, PageUsers} : Navigate(p)
    \/ CreateUser(SessionUser, MaxCredits)
    \/ \E r \in { Request(AccountBox, Policy(1000, 1000)) }, n \in AccountNames : LaunchSearch(r, n)
    \/ \E r \in PagesRequests, n \in AccountNames : LaunchSearchPages(r, n)
    \/ CellLookup
    \/ Post
    \/ Sleep
    \/ DbFails

SessionSpec == SessionInit /\ [][SessionNext]_vars

\* The migration alone, on the database init_db leaves
MigrationInit ==
    /\ Init
    /\ upstream = [z \in Zones |-> << Page("ok", <<>>, FALSE) >>]

MigrationNext ==
    \/ MigrateCall
    \/ MigrateUser
    \/ MigrateCount
    \/ MigrateCountError
    \/ MigrateSearch
    \/ MigrateCommit
    \/ MigrateRaise

MigrationSpec == MigrationInit /\ [][MigrationNext]_vars

\* Two sessions at once: the session of the model so far and the second one,
\* both on the quick search of the box, the API answering with two pages; the
\* administrator creates the accounts with MaxCredits credits and can take
\* the credits of the second account away, the first account is the one
\* that logs in, in both sessions
Searcher  == "u1"
Bystander == "u2"

ConcurrentRequests == { Request(AccountBox, Policy(1000, 1000)) }

ConcurrentInit ==
    /\ Init
    /\ upstream = [z \in Zones |->
                     << Page("ok", <<pA, pFar, pA2>>, TRUE), Page("ok", <<pB, pA>>, FALSE) >>]

ConcurrentNext ==
    \/ LoginAdmin
    \/ Login(Searcher)
    \/ Logout
    \/ \E u \in Usernames : CreateUser(u, MaxCredits)
    \/ UpdateCredits(Bystander, 0)
    \/ \E r \in ConcurrentRequests, n \in AccountNames : LaunchSearch(r, n)
    \/ CellLookup
    \/ Post
    \/ Sleep
    \/ OtherLogin(Searcher)
    \/ \E r \in ConcurrentRequests, n \in AccountNames : OtherCheck(r, n)
    \/ OtherRead
    \/ OtherLoad
    \/ OtherSave
    \/ OtherSearch

ConcurrentSpec == ConcurrentInit /\ [][ConcurrentNext]_vars

----------------------------------------------------------------------------
\* Properties

Done == pc = "done"

LatExtent == args.lat_max - args.lat_min
LonExtent == args.lon_max - args.lon_min

RegionOrdered == args.lat_min < args.lat_max /\ args.lon_min < args.lon_max

RegionValid ==
    /\ RegionOrdered
    /\ -18000 <= args.lat_min /\ args.lat_max <= 18000
    /\ -36000 <= args.lon_min /\ args.lon_max <= 36000

\* C1: a box with lat_min >= lat_max or lon_min >= lon_max is rejected with
\* a region error, the search returns no place and no request, and neither a
\* point search nor an HTTP request is made for it.
C1_InvalidRegionRejected ==
    (pc # "idle" /\ (args.lat_min >= args.lat_max \/ args.lon_min >= args.lon_max))
        => /\ pc = "done"
           /\ result = [pharmacies |-> <<>>, total_requests |-> 0]
           /\ log = <<>>
           /\ httpCalls = 0
           /\ Len(reports) >= 1
           /\ reports[1] \in {MsgCoords, MsgLimits}

C1_Witness ==
    /\ Done
    /\ args.lat_min = args.lat_max
    /\ reports[1] = MsgLimits
    /\ prev.launched /\ prev.result.total_requests > 0

\* the HTTP responses that a point search counted for a cell, read from what
\* the API answers there: every page but one lost to a connection error
Responses(center) ==
    Cardinality({ i \in 1..Len(upstream[ZoneOf(center)]) :
                    upstream[ZoneOf(center)][i].status # "connection_error" })

CellRequests(e) ==
    IF e.outcome \in {"ok", "failed"} THEN Responses(e.center) ELSE 0

RECURSIVE SumCellRequests(_)
SumCellRequests(entries) ==
    IF entries = <<>> THEN 0
    ELSE CellRequests(Head(entries)) + SumCellRequests(Tail(entries))

CellRequestsZeroOnFailure(e) ==
    IF e.outcome = "ok" THEN Responses(e.center) ELSE 0

RECURSIVE SumCellRequestsZeroOnFailure(_)
SumCellRequestsZeroOnFailure(entries) ==
    IF entries = <<>> THEN 0
    ELSE CellRequestsZeroOnFailure(Head(entries))
             + SumCellRequestsZeroOnFailure(Tail(entries))

PolicyValid == args.step > 0 /\ args.radius > 0

\* C2 as stated (on the searches of a valid box under a valid policy):
\* total_requests is the sum of the per-cell request counts, a cell that
\* failed with a transport error counting for 0.
C2_FailedCellCountsZero ==
    (Done /\ RegionValid /\ PolicyValid)
        => result.total_requests = SumCellRequestsZeroOnFailure(log)

\* C2 amended: total_requests is the sum, over the point searches that
\* returned, of the requests each one counted, pagination included: a cell
\* that failed with a transport error counts for the responses received
\* before the failure (an HTTP error status is one of them), a cell served
\* from the cache or ended by another exception counts for 0.
C2_TotalIsSumOfCountedRequests ==
    Done => /\ result.total_requests = SumCellRequests(log)
            /\ result.total_requests <= httpCalls

C2_Witness ==
    /\ Done
    /\ \E i \in 1..Len(log) : log[i].outcome = "failed" /\ log[i].requests = 2
    /\ \E i \in 1..Len(log) : log[i].outcome = "ok" /\ log[i].requests = 2
    /\ result.total_requests >= 4

\* C3: a point search that fails for one cell neither stops the search (every
\* cell of the grid is searched) nor loses what the other cells returned.
C3_FailureIsolated ==
    Done => /\ Len(log) = Len(cells)
            /\ \A i \in 1..Len(log) : log[i].keys \subseteq KeysOf(result.pharmacies)

CallerStepCells == CeilDiv(LatExtent, args.step) * CeilDiv(LonExtent, args.step)

EveryCellReturned == \A i \in 1..Len(log) : log[i].outcome # "raised"

DenseArea ==
    (((((LatExtent * 555) * (LonExtent * 555)) \div 1000)
         * CosMilli(Abs(args.lat_min + args.lat_max) \div 400)) \div 1000) < 1000

UsedStep == IF DenseArea /\ args.step > 1 THEN 1 ELSE args.step

UsedStepCells == CeilDiv(LatExtent, UsedStep) * CeilDiv(LonExtent, UsedStep)

C5_NoDuplicateKeys ==
    Done => \A i, j \in 1..Len(result.pharmacies) :
               (/\ result.pharmacies[i].name = result.pharmacies[j].name
                /\ result.pharmacies[i].latitude = result.pharmacies[j].latitude
                /\ result.pharmacies[i].longitude = result.pharmacies[j].longitude)
                   => i = j

C5_Witness ==
    /\ Done
    /\ \E i, j \in 1..Len(log) :
          /\ i # j
          /\ <<"Pharmacie A", 6701, -1519>> \in log[i].keys \cap log[j].keys
    /\ Cardinality({ i \in 1..Len(result.pharmacies) :
                       result.pharmacies[i].name = "Pharmacie A" }) = 1

SameCallAgain == Done /\ prev.launched /\ prev.args = args

\* C6 as stated (on a valid box and policy): a second search with the same
\* box and policy, the API answering the same, returns the same places and
\* the same total_requests.
C6_SameCallSameResult ==
    (SameCallAgain /\ RegionValid /\ PolicyValid) => result = prev.result

\* C6 amended: a second search with the same box and policy, the API
\* answering the same, returns the same list of places; total_requests may
\* differ, because the first search leaves cache entries, kept 24 hours per
\* user, and a cell served from them counts for 0 requests.
C6_SameCallSamePlaces ==
    SameCallAgain => result.pharmacies = prev.result.pharmacies

C6_Witness ==
    /\ SameCallAgain
    /\ result.pharmacies # <<>>
    /\ result.total_requests = 0
    /\ prev.result.total_requests > 0

\* C7: a policy with step <= 0 or radius <= 0 makes the search fail with an
\* error before any point search or HTTP request.
C7_InvalidPolicyRejected ==
    (pc # "idle" /\ RegionValid /\ (args.step <= 0 \/ args.radius <= 0))
        => /\ pc = "done"
           /\ log = <<>>
           /\ httpCalls = 0
           /\ Len(reports) >= 1
           /\ reports[1] # MsgNotFound

\* C8 as stated (on a valid policy): every point search receives the radius
\* given by the caller.
C8_RadiusIsCallerRadius ==
    PolicyValid
        => /\ \A i \in 1..Len(log) : log[i].radius = args.radius
           /\ pc \in {"post", "sleep"} => subarea_radius = args.radius

UsedRadius == IF DenseArea /\ args.radius > 500 THEN 500 ELSE args.radius

\* C8 amended: every point search receives the caller's radius, lowered to
\* 500 m when the box covers less than 1 km2.
C8_RadiusIsUsedRadius ==
    /\ \A i \in 1..Len(log) : log[i].radius = UsedRadius
    /\ pc \in {"post", "sleep"} => subarea_radius = UsedRadius

C8_Witness ==
    /\ Done
    /\ args.radius = 1000
    /\ Len(log) = 2
    /\ \A i \in 1..Len(log) : log[i].radius = 500

OneCellAtCorner ==
    /\ cells = << <<args.lat_min, args.lon_min>> >>
    /\ Done => (Len(log) = 1 /\ log[1].center = <<args.lat_min, args.lon_min>>)

\* C9 as stated (on a valid policy): a step larger than both extents of a
\* valid box gives one cell, centered at (lat_min, lon_min).
C9_OneCellForLargeCallerStep ==
    (pc # "idle" /\ RegionValid /\ PolicyValid
        /\ args.step > LatExtent /\ args.step > LonExtent)
        => OneCellAtCorner

\* C9 amended: when the step in use, the caller's step lowered to 0.005
\* degree for a box of less than 1 km2, is larger than both extents, the search
\* makes one point search, centered at (lat_min, lon_min).
C9_OneCellForLargeUsedStep ==
    (pc # "idle" /\ RegionValid /\ UsedStep > LatExtent /\ UsedStep > LonExtent)
        => OneCellAtCorner

C9_Witness ==
    /\ Done
    /\ RegionValid
    /\ args.step = 4
    /\ LonExtent = 3
    /\ Len(log) = 1
    /\ log[1].outcome = "ok"

RunValid(a) ==
    /\ a.lat_min < a.lat_max /\ a.lon_min < a.lon_max
    /\ -18000 <= a.lat_min /\ a.lat_max <= 18000
    /\ -36000 <= a.lon_min /\ a.lon_max <= 36000
    /\ a.step > 0 /\ a.radius > 0

Seq2Set(q) == { q[i] : i \in 1..Len(q) }

\* a search of a valid box under a valid policy that went through all its
\* cells and found nothing
FoundNothing(a, res, rep) ==
    RunValid(a) /\ res.pharmacies = <<>> /\ MsgArea \notin Seq2Set(rep)

TellApart(a1, res1, rep1, a2, res2, rep2) ==
    (FoundNothing(a1, res1, rep1) /\ ~RunValid(a2))
        => ~(res1 = res2 /\ rep1 = rep2)

\* C10: a search that found nothing and a search of an invalid region or
\* policy never end with the same returned value and the same messages.
C10_NoResultDistinctFromRejected ==
    (Done /\ prev.launched)
        => /\ TellApart(prev.args, prev.result, prev.reports, args, result, reports)
           /\ TellApart(args, result, reports, prev.args, prev.result, prev.reports)

----------------------------------------------------------------------------
\* Order of the returned list

\* the per-cell results one after the other, cells in processing order
RECURSIVE ConcatPlaces(_)
ConcatPlaces(entries) ==
    IF entries = <<>> THEN <<>>
    ELSE Head(entries).places \o ConcatPlaces(Tail(entries))

\* positions of L that hold the first occurrence of their identity key
FirstPositions(L) ==
    { i \in 1..Len(L) :
        \A j \in 1..(i - 1) :
            ~(/\ L[j].name = L[i].name
              /\ L[j].latitude = L[i].latitude
              /\ L[j].longitude = L[i].longitude) }

RECURSIVE SubsequenceFrom(_, _, _)
SubsequenceFrom(L, keep, i) ==
    IF i > Len(L) THEN <<>>
    ELSE (IF i \in keep THEN <<L[i]>> ELSE <<>>) \o SubsequenceFrom(L, keep, i + 1)

\* L with every later occurrence of a key deleted
FirstOccurrences(L) == SubsequenceFrom(L, FirstPositions(L), 1)

\* C11: the returned list is the concatenation of the per-cell results, in
\* processing order, with every later occurrence of an identity key deleted:
\* the first place seen for a key is kept, in first-seen order.
C11_FirstSeenOrder ==
    Done => result.pharmacies = FirstOccurrences(ConcatPlaces(log))

\* the same on the searches none of whose point searches raised
C11_FirstSeenOrderWhenAllReturned ==
    (Done /\ EveryCellReturned)
        => result.pharmacies = FirstOccurrences(ConcatPlaces(log))

----------------------------------------------------------------------------
\* Algebra of the deduplication

\* the per-cell results of the grid, in processing order
CellResults == [i \in 1..Len(cells) |-> PointSearch(upstream[ZoneOf(cells[i])])]

\* the per-cell results rs arriving at the merge in the order p
Arrivals(rs, p) == [i \in 1..Len(rs) |-> rs[p[i]]]

ArrivalOrders == Permutations(1..Len(cells))

\* C12: whatever the order in which the per-cell results of the grid arrive
\* at the merge, the set of identity keys of the final list is the same, the
\* one of the list that the search returned (every cell of the grid having a
\* result, that is no point search running without end).
C12_OrderIndependentKeys ==
    (Done /\ cells # <<>>)
        => LET rs == CellResults
               ks == KeysOf(result.pharmacies)
           IN (\A i \in 1..Len(rs) : rs[i].outcome # "endless")
                 => \A p \in ArrivalOrders :
                       KeysOf(MergeAll(<<>>, {}, Arrivals(rs, p))) = ks

C12_Witness ==
    /\ Done
    /\ Len(cells) >= 4
    /\ \E i, j \in 1..Len(log) :
          /\ log[i].keys # {} /\ log[j].keys # {}
          /\ log[i].keys # log[j].keys
    /\ Cardinality(KeysOf(result.pharmacies)) >= 2

\* C13: deduplicating a deduplicated list changes nothing: dedup(dedup(L)) =
\* dedup(L) for the list L accumulated by a point search, the list a point
\* search returned is its own deduplication, for the per-cell step as for the
\* merge of the area search, and so is the list the area search returned.
C13_DedupIdempotent ==
    /\ UniquePharmacies(UniquePharmacies(pharmacies)) = UniquePharmacies(pharmacies)
    /\ \A i \in 1..Len(log) :
          /\ UniquePharmacies(log[i].places) = log[i].places
          /\ MergeCell(<<>>, {}, log[i].places).list = log[i].places
    /\ Done => /\ UniquePharmacies(result.pharmacies) = result.pharmacies
               /\ MergeCell(<<>>, {}, result.pharmacies).list = result.pharmacies

C13_Witness ==
    /\ pc = "sleep"
    /\ Len(pharmacies) = 2
    /\ Len(UniquePharmacies(pharmacies)) = 1
    /\ \E i \in 1..Len(log) :
          /\ log[i].outcome = "ok"
          /\ log[i].requests = 2
          /\ Len(log[i].places) = 2

----------------------------------------------------------------------------
\* Pagination of a point search

ScriptOf(center) == upstream[ZoneOf(center)]

\* the pages of a script that carry a continuation token
TokenPages(script) == { k \in 1..Len(script) : script[k].nextPageToken }

RECURSIVE AllPagesPlaces(_)
AllPagesPlaces(script) ==
    IF script = <<>> THEN <<>>
    ELSE ParsePlaces(Head(script).places) \o AllPagesPlaces(Tail(script))

\* C14: a point search that succeeds has requested every page of its cell,
\* following the tokens up to the page that carries none, returns the places
\* of all these pages, and reports as request count the number of HTTP calls
\* it made, 1 plus the number of continuation pages.
C14_PagesDrainedAndCounted ==
    /\ \A i \in 1..Len(log) :
          log[i].outcome = "ok"
              => /\ log[i].requests = log[i].calls
                 /\ log[i].requests = 1 + Cardinality(TokenPages(ScriptOf(log[i].center)))
                 /\ log[i].requests = Len(ScriptOf(log[i].center))
                 /\ ~ScriptOf(log[i].center)[log[i].requests].nextPageToken
                 /\ log[i].places = FirstOccurrences(AllPagesPlaces(ScriptOf(log[i].center)))
    /\ pc = "sleep" => (request_count = cellCalls /\ page = request_count + 1)

C14_Witness ==
    /\ Done
    /\ \E i \in 1..Len(log) :
          /\ log[i].outcome = "ok"
          /\ log[i].calls = 2
          /\ log[i].requests = 2
          /\ Len(log[i].places) = 2
    /\ \E i \in 1..Len(log) : log[i].outcome = "ok" /\ log[i].calls = 1

----------------------------------------------------------------------------
\* Cell centers and their order

\* the points lo + i * step below hi
PointsBelow(lo, hi, step) == { x \in lo..(hi - 1) : (x - lo) % step = 0 }

CentersFor(step) ==
    PointsBelow(args.lat_min, args.lat_max, step)
        \X PointsBelow(args.lon_min, args.lon_max, step)

\* latitude first, longitude second
Before(c, d) == c[1] < d[1] \/ (c[1] = d[1] /\ c[2] < d[2])

Visited == [i \in 1..Len(log) |-> log[i].center]

\* the centers of s are the set C, each once, latitude ascending in the outer
\* order and longitude ascending in the inner order
AscendingOver(s, C) ==
    /\ { s[i] : i \in 1..Len(s) } = C
    /\ \A i, j \in 1..Len(s) : i < j => Before(s[i], s[j])

----------------------------------------------------------------------------
\* Termination

\* the first search of a session
FirstSearchNext ==
    \/ LoginAdmin
    \/ \E r \in Requests : runs = 0 /\ AdminSearch(r)
    \/ CellLookup
    \/ Post
    \/ Sleep
    \/ Tick

\* a search that was started goes on: the lookup, the request and the sleep
\* of a point search are steps of one call that runs to its end
FairSpec ==
    /\ Init
    /\ [][FirstSearchNext]_vars
    /\ WF_vars(CellLookup) /\ WF_vars(Post) /\ WF_vars(Sleep)

Searching == pc \in {"cell", "post", "sleep"}

\* C16: an area search that was started returns, whatever continuation
\* tokens the API serves.
C16_AreaSearchReturns == Searching ~> Done

----------------------------------------------------------------------------
\* Delay between the page requests of a cell

\* C17: a point search is about to post a continuation page only right after
\* a sleep that followed the response to the page before, and it posts the
\* first page of its cell without sleeping.
C17_DelayBeforeContinuation ==
    /\ pc = "post" => (slept <=> cellCalls >= 1)
    /\ pc = "post" => page = cellCalls + 1
    /\ pc = "sleep" => (~slept /\ cellCalls >= 1 /\ page = cellCalls + 1)

C17_Witness ==
    /\ pc = "post"
    /\ slept
    /\ cellCalls = 1
    /\ pharmacies # <<>>
    /\ idx = 2

\* C18: looking up a cell (center and radius) for which the same user stored
\* places less than 24 hours earlier returns the stored places with request
\* count 0 and makes no HTTP request; in every other case, an entry stored 24
\* hours ago or more included, the entry is removed and the first page is
\* requested from the API.
LastLog == log'[Len(log')]

StoredAge(entry) == now - entry.stored

C18_CacheHitWithin24Hours ==
    [][ pc = "cell" =>
          LET key  == << cells[idx][1], cells[idx][2], subarea_radius >>
              mine == cache[session.username]
          IN IF key \in DOMAIN mine /\ StoredAge(mine[key]) < 24
             THEN /\ Len(log') = Len(log) + 1
                  /\ LastLog.center = cells[idx]
                  /\ LastLog.places = mine[key].data
                  /\ LastLog.requests = 0
                  /\ httpCalls' = httpCalls
                  /\ pc' \in {"cell", "done"}
                  /\ cache' = cache
             ELSE /\ key \notin DOMAIN cache'[session.username]
                  /\ pc' = "post"
                  /\ page' = 1
                  /\ log' = log
                  /\ httpCalls' = httpCalls ]_vars

\* a cell was served from an entry stored 12 hours earlier, with places in it
C18_Witness ==
    /\ log # <<>>
    /\ log[Len(log)].outcome = "cache"
    /\ log[Len(log)].places # <<>>
    /\ log[Len(log)].requests = 0
    /\ httpCalls = 0
    /\ now = 12
    /\ CacheKey(log[Len(log)].center, subarea_radius) \in DOMAIN cache[session.username]
    /\ cache[session.username][CacheKey(log[Len(log)].center, subarea_radius)].stored = 0

\* an entry stored 24 hours ago was removed at the lookup, before the request
C18_ExpiredEntryRemoved ==
    /\ pc = "post"
    /\ page = 1
    /\ now = 24
    /\ runs = 2
    /\ prev.args = args
    /\ prev.result.pharmacies # <<>>
    /\ CacheKey(cells[idx], subarea_radius) \notin DOMAIN cache[session.username]

\* C19: delete_user(username) on a user of the table returns True and leaves
\* no row of that user in USERS (no account, no request counter) and no
\* search-history row with that user_id; on a user that is not in the table
\* it returns False and changes nothing.
DeleteUserReturned(u) ==
    /\ ret' # ret
    /\ ret'.op = "delete_user"
    /\ ret'.username = u

HistoryOf(h, u) == { i \in 1..Len(h) : h[i].user_id = u }

C19_DeleteUserRemovesEverything ==
    [][ \A u \in Usernames :
          DeleteUserReturned(u) =>
             IF u \in DOMAIN users
             THEN /\ ret'.value = TRUE
                  /\ u \notin DOMAIN users'
                  /\ HistoryOf(history', u) = {}
             ELSE /\ ret'.value = FALSE
                  /\ users' = users
                  /\ history' = history ]_vars

\* C20: a user who is not the administrator launches a search only with at
\* least 1 credit, the launch lowers that user's credits by exactly 1, no
\* step of an administrator's search changes the credits of any user, and
\* no user ever has negative credits.
Launched == runs' = runs + 1

InSearch == Launched \/ pc \in {"cell", "post", "sleep"}

C20_OneCreditPerSearch ==
    /\ [][ (Launched /\ ~session.is_admin) =>
              /\ GetUserCredits(users, session.username) >= 1
              /\ GetUserCredits(users', session.username)
                   = GetUserCredits(users, session.username) - 1 ]_vars
    /\ [][ (InSearch /\ session.is_admin) =>
              \A u \in DOMAIN users :
                  GetUserCredits(users', u) = GetUserCredits(users, u) ]_vars
    /\ [](\A u \in DOMAIN users : GetUserCredits(users, u) >= 0)

\* C21: no credit change is lost when two sessions work at once: whenever no
\* payment is between its read and its write, the credits of every user are
\* what the committed changes add up to, in the order they were committed:
\* the value last set by the administrator minus 1 for every search the user
\* launched since (two searches of one user lower the credits by 2, and a
\* write for one user leaves the value committed for another).
NoPaymentInFlight == other.pc \notin {"read", "loaded"}

C21_NoCreditChangeLost ==
    NoPaymentInFlight =>
        \A u \in Usernames :
            u \in DOMAIN users => GetUserCredits(users, u) = ledger[u].expected

\* C22: between two searches, the credits a user who is not the
\* administrator has paid are as many as the searches of that user saved in
\* the history: no credit is paid for a search that is not saved and no
\* search is saved without a credit paid.
C22_CreditsPaidAreSearchesSaved ==
    pc \in {"idle", "done"} =>
        \A u \in Usernames :
            ledger[u].taken = Cardinality(HistoryOf(history, u))

\* the half of C22 that holds: no search is saved without a credit paid
C22_NoSearchSavedUnpaid ==
    \A u \in Usernames : Cardinality(HistoryOf(history, u)) <= ledger[u].taken

\* C23: between two searches, the billing total get_total_requests() is the
\* number of requests sent to the API by all the searches so far, those that
\* found no pharmacy or ended in an error included.
C23_BillingCountsEveryRequest ==
    (pc \in {"idle", "done"} /\ other.pc # "search")
        => GetTotalRequests(history) = issued

\* the billing total never exceeds the requests sent
C23_BillingAtMostRequestsSent == GetTotalRequests(history) <= issued

\* the rows of the three files are in the tables, as the transaction wrote them
AllMigrated ==
    /\ \A k \in 1..Len(mig.files.users) : mig.files.users[k].username \in DOMAIN users
    /\ \A k \in 1..Len(mig.files.searches) :
          \E j \in 1..Len(history) : history[j] = mig.files.searches[k]
    /\ users = mig.tx.users
    /\ history = mig.tx.history

\* C24: once MIGRATION_STATUS is 'completed' no step of migrate_json_to_mysql
\* changes USERS, SEARCH_HISTORY or the status; the step that sets the status
\* to 'completed' is the one that commits all the users, counters and
\* searches of the run; every other step, the end of a run that raised
\* included, leaves the status 'pending' and the tables as they were.
C24_MigrationOnceAndAtomic ==
    [][/\ mig.status = "completed"
            => mig'.status = "completed" /\ users' = users /\ history' = history
       /\ (mig.status = "pending" /\ mig'.status = "completed") => AllMigrated'
       /\ (mig.status = "pending" /\ mig'.status = "pending")
            => users' = users /\ history' = history]_vars

\* a first call raised with rows written, the second migrated two users and
\* two searches, the third found the status 'completed'
C24_Witness ==
    /\ mig.outcomes = <<"raised", "completed", "skipped">>
    /\ mig.status = "completed"
    /\ DOMAIN users = Usernames
    /\ Len(history) = 2

\* the page run() renders
Rendered == RenderedPage(session, ui.page)

\* a login was refused in this step
FailedLoginStep ==
    /\ ui'.message \in {MsgBadLogin, MsgBadAdmin}
    /\ ui'.message # ui.message

\* C25: a session that is not authenticated is shown the login page only,
\* Facturation and Gestion des utilisateurs are shown only to a session with
\* is_admin, and a refused login leaves is_authenticated, is_admin, username
\* and page as they were.
C25_PagesFollowTheSession ==
    /\ [](/\ ~session.is_authenticated => Rendered = PageLogin
          /\ Rendered \in {PageBilling, PageUsers} => session.is_admin)
    /\ [][FailedLoginStep => session' = session /\ ui'.page = ui.page]_vars

\* a login is refused for the account the administrator created before
C25_Witness ==
    /\ ~session.is_authenticated
    /\ ui.message = MsgBadLogin
    /\ SessionUser \in DOMAIN users
    /\ Rendered = PageLogin

\* the administrator is shown the billing page
C25_AdminSeesBilling == session.is_admin /\ Rendered = PageBilling

\* _process_search ends in this step
SearchEnds == pc' = "done" /\ (pc # "done" \/ runs' # runs)

\* the search that ended raised an exception or found no pharmacy
SearchFailed ==
    \/ result.pharmacies = <<>>
    \/ \E k \in 1..Len(reports) : reports[k] = MsgLaunch

\* C26: when _process_search ends search_in_progress is false; after an
\* exception or an empty result the page is the selection page, map and
\* selected_pharmacies_key are None and the history is as before the search;
\* the page is Resultats only when the non-empty result was saved.
C26_ProcessSearchEndsClean ==
    [][SearchEnds =>
          /\ ~ui'.search_in_progress
          /\ SearchFailed' =>
                /\ ui'.page = PageSelection
                /\ ui'.map = NoMap
                /\ ui'.selected_pharmacies_key = NoKey
                /\ history' = history
          /\ ui'.page = PageResults =>
                /\ result'.pharmacies # <<>>
                /\ Len(history') = Len(history) + 1
                /\ history'[Len(history')].pharmacies = result'.pharmacies]_vars

\* the same while no statement sent to the database raises
C26_EndsCleanWhileDatabaseUp ==
    [][(SearchEnds /\ db = "up") =>
          /\ ~ui'.search_in_progress
          /\ SearchFailed' =>
                /\ ui'.page = PageSelection
                /\ ui'.map = NoMap
                /\ ui'.selected_pharmacies_key = NoKey
                /\ history' = history
          /\ ui'.page = PageResults =>
                /\ result'.pharmacies # <<>>
                /\ Len(history') = Len(history) + 1
                /\ history'[Len(history')].pharmacies = result'.pharmacies]_vars

\* a search was saved and the session was reset all the same
C26_SavedAndReset ==
    /\ pc = "done"
    /\ result.pharmacies # <<>>
    /\ Len(history) = 1
    /\ ui.page = PageSelection
    /\ ui.map = NoMap
====
